---- MODULE Spec2Model ----
(***************************************************************************)
(* Model of cloudsmith/data_source_package.go: the package data source's  *)
(* read handler (dataSourcePackageRead), the downloader (downloadPackage) *)
(* and the digest computation (calculateChecksums).                       *)
(*                                                                         *)
(* Text (URLs, paths, hex digests, error messages) is a sequence of       *)
(* tokens; the empty text is << >>.  A byte is a number in 0..255 and a   *)
(* file's content is a sequence of bytes.                                 *)
(***************************************************************************)
EXTENDS Integers, Sequences, FiniteSets, TLC

VARIABLES
    pc,          \* where dataSourcePackageRead stands
    pkg,         \* the package returned by PackagesReadExecute
    cfg,         \* the configured download, download_dir, ignore_checksums
    d,           \* the fields set on the schema.ResourceData
    outputPath,  \* the path returned by the last downloadPackage call
    local,       \* localMD5, localSHA1, localSHA256, localSHA512
    files,       \* the file system: path -> content
    requests,    \* the requests handed to client.Do, with their answers
    observed,    \* the results of the calculateChecksums calls, in order
    stdout,      \* the lines printed with fmt.Println
    err,         \* the error dataSourcePackageRead returns
    handles,     \* the response bodies and files the calls left open
    dig,         \* one calculateChecksums call, chunk by chunk
    conc,        \* two invocations running concurrently on one file system
    twin         \* two invocations that differ in ignore_checksums only

vars == <<pc, pkg, cfg, d, outputPath, local, files, requests, observed, stdout, err,
          handles, dig, conc, twin>>

\* The state of the other specifications of this module.
others == <<dig, conc, twin>>

----------------------------------------------------------------------------
\* Bounds of the model.

\* Longest body the server serves, in bytes.
MaxLen == 1
\* Largest reading of the wall clock, in seconds since the epoch.
MaxClock == 2

\* The values a served byte takes (one value keeps the contents few).
ByteValues == {0}

\* Longest file calculateChecksums is followed through chunk by chunk.
MaxDigestLen == 3

\* The values a byte of such a file takes.
DigestByteValues == {0, 1}

----------------------------------------------------------------------------
\* Text helpers.

Algs == <<"MD5", "SHA1", "SHA256", "SHA512">>

AlgSet == {Algs[i] : i \in 1..Len(Algs)}

RECURSIVE SeqsUpTo(_, _)
SeqsUpTo(S, n) ==
    IF n = 0 THEN {<< >>}
    ELSE LET shorter == SeqsUpTo(S, n - 1)
         IN  shorter \cup {Append(s, x) : s \in {t \in shorter : Len(t) = n - 1}, x \in S}

Blobs == SeqsUpTo(ByteValues, MaxLen)

Prefixes(s) == {SubSeq(s, 1, n) : n \in 0..Len(s)}

MaxOf(S) == CHOOSE x \in S : \A y \in S : y <= x

MinOf(S) == CHOOSE x \in S : \A y \in S : x <= y

----------------------------------------------------------------------------
\* crypto/md5, crypto/sha1, crypto/sha256, crypto/sha512 and encoding/hex.
\* The four hash functions are stood for by four different one-byte rolling
\* hashes: a state, a Write that absorbs bytes in order, a Sum.

HashIV == [a \in AlgSet |->
    CASE a = "MD5" -> 212 [] a = "SHA1" -> 218 [] a = "SHA256" -> 227 [] a = "SHA512" -> 207]

HashMul == [a \in AlgSet |->
    CASE a = "MD5" -> 31 [] a = "SHA1" -> 33 [] a = "SHA256" -> 41 [] a = "SHA512" -> 43]

\* hash.Hash constructor: md5.New(), sha1.New(), ...
New(a) == HashIV[a]

\* hash.Hash.Write: absorb the bytes of p, in order, into state h.
RECURSIVE HashWrite(_, _, _)
HashWrite(a, h, p) ==
    IF p = << >> THEN h
    ELSE HashWrite(a, (h * HashMul[a] + Head(p) + 1) % 256, Tail(p))

\* hash.Hash.Sum(nil): the digest bytes of state h.
HashSum(a, h) == <<h>>

HexDigits == <<"0", "1", "2", "3", "4", "5", "6", "7",
               "8", "9", "a", "b", "c", "d", "e", "f">>

\* hex.EncodeToString: two lowercase hex digits per byte.
RECURSIVE EncodeToString(_)
EncodeToString(bytes) ==
    IF bytes = << >> THEN << >>
    ELSE <<HexDigits[(Head(bytes) \div 16) + 1], HexDigits[(Head(bytes) % 16) + 1]>>
         \o EncodeToString(Tail(bytes))

\* calculateChecksums on a file whose content is readable: one pass that
\* feeds every hash, then the hex text of each sum.
calculateChecksums(content) ==
    [a \in AlgSet |-> EncodeToString(HashSum(a, HashWrite(a, New(a), content)))]

\* Letter case of hex text.
UpperChar(c) ==
    CASE c = "a" -> "A" [] c = "b" -> "B" [] c = "c" -> "C"
      [] c = "d" -> "D" [] c = "e" -> "E" [] c = "f" -> "F" [] OTHER -> c

LowerChar(c) ==
    CASE c = "A" -> "a" [] c = "B" -> "b" [] c = "C" -> "c"
      [] c = "D" -> "d" [] c = "E" -> "e" [] c = "F" -> "f" [] OTHER -> c

ToUpper(s) == [i \in 1..Len(s) |-> UpperChar(s[i])]

ToLower(s) == [i \in 1..Len(s) |-> LowerChar(s[i])]

----------------------------------------------------------------------------
\* net/url, path and strconv.

DecimalDigits == <<"0", "1", "2", "3", "4", "5", "6", "7", "8", "9">>

\* strconv.FormatInt(n, 10) for n >= 0.
RECURSIVE FormatInt(_)
FormatInt(n) ==
    IF n < 10 THEN <<DecimalDigits[n + 1]>>
    ELSE Append(FormatInt(n \div 10), DecimalDigits[(n % 10) + 1])

\* Positions of token t in text s.
Positions(s, t) == {i \in 1..Len(s) : s[i] = t}

\* The pieces of s between occurrences of the separator token.
RECURSIVE Split(_, _)
Split(s, sep) ==
    IF Positions(s, sep) = {} THEN <<s>>
    ELSE LET i == MinOf(Positions(s, sep))
         IN  <<SubSeq(s, 1, i - 1)>> \o Split(SubSeq(s, i + 1, Len(s)), sep)

\* url.Parse: the part before the first "?" and the raw query after it.
urlParse(u) ==
    IF Positions(u, "?") = {} THEN [Path |-> u, RawQuery |-> << >>]
    ELSE LET i == MinOf(Positions(u, "?"))
         IN  [Path |-> SubSeq(u, 1, i - 1), RawQuery |-> SubSeq(u, i + 1, Len(u))]

\* URL.Query(): the raw query as a map from key to value ("k=v" pairs
\* separated by "&"; a later pair of the same key is not modelled).
Query(raw) ==
    LET pairs == {p \in {Split(Split(raw, "&")[i], "=") : i \in 1..Len(Split(raw, "&"))} :
                    Len(p) = 2 /\ Len(p[1]) = 1}
        keys  == {p[1][1] : p \in pairs}
    IN  [k \in keys |-> (CHOOSE p \in pairs : p[1][1] = k)[2]]

\* Values.Set(key, value).
QuerySet(q, key, value) ==
    [k \in DOMAIN q \cup {key} |-> IF k = key THEN value ELSE q[k]]

\* The keys a query string of the model can hold, in sorted order.
QueryKeys == <<"sig", "time">>

\* Values.Encode(): "k=v" pairs sorted by key, joined by "&".
RECURSIVE EncodeFrom(_, _)
EncodeFrom(q, i) ==
    IF i > Len(QueryKeys) THEN << >>
    ELSE LET rest == EncodeFrom(q, i + 1)
         IN  IF QueryKeys[i] \in DOMAIN q
             THEN <<QueryKeys[i], "=">> \o q[QueryKeys[i]]
                  \o (IF rest = << >> THEN << >> ELSE <<"&">> \o rest)
             ELSE rest

Encode(q) == EncodeFrom(q, 1)

\* path.Base: the text after the last "/" (trailing slashes dropped first).
RECURSIVE Base(_)
Base(p) ==
    IF p = << >> THEN <<".">>
    ELSE IF p[Len(p)] = "/"
         THEN (IF Len(p) = 1 THEN <<"/">> ELSE Base(SubSeq(p, 1, Len(p) - 1)))
         ELSE IF Positions(p, "/") = {} THEN p
              ELSE SubSeq(p, MaxOf(Positions(p, "/")) + 1, Len(p))

\* path.Join(dir, name) for a non-empty dir without a trailing slash.
Join(dir, name) == IF dir = << >> THEN name ELSE dir \o <<"/">> \o name

\* fmt.Sprintf("Checksum mismatch (%s): expected=%s, got=%s", a, b, c).
Sprintf3(a, b, c) ==
    <<"Checksum mismatch (">> \o a \o <<"): expected=">> \o b \o <<", got=">> \o c

checksumMismatchError(localChecksum, remoteChecksum, checksumType) ==
    Sprintf3(localChecksum, remoteChecksum, checksumType)

----------------------------------------------------------------------------
\* The environment: what the package API and the CDN can answer.

\* URLs the API hands out as cdn_url: a plain one, one that already has a
\* "time" parameter and another one, and one that does not parse.
CdnUrls ==
    { <<"https://cdn", "/", "pkg.tgz">>,
      <<"https://cdn", "/", "pkg.tgz", "?", "time", "=", "0", "&", "sig", "=", "k">>,
      <<"https://cdn", "/", "<DEL>">> }

\* http.NewRequest and url.Parse reject a URL holding a control character.
urlValid(u) == Positions(u, "<DEL>") = {}

\* The two contents whose digests the API may publish.
Published == <<0>>

Superseded == << >>

\* What the API may return as one checksum: nothing, the lowercase or the
\* uppercase hex digest of the published content, or the digest of another
\* content.
ExpectedChoices(a) ==
    { << >>,
      calculateChecksums(Published)[a],
      ToUpper(calculateChecksums(Published)[a]),
      calculateChecksums(Superseded)[a] }

Packages ==
    { [CdnUrl |-> u, Checksum |-> c] :
        u \in CdnUrls,
        c \in {f \in [AlgSet -> UNION {ExpectedChoices(a) : a \in AlgSet}] :
                 \A a \in AlgSet : f[a] \in ExpectedChoices(a)} }

NoPackage == [CdnUrl |-> << >>, Checksum |-> [a \in AlgSet |-> << >>]]

StatusOK == 200

Statuses == {StatusOK, 204, 404, 500}

----------------------------------------------------------------------------
\* State helpers.

NoError == [kind |-> "nil", msg |-> << >>]

Error(kind) == [kind |-> kind, msg |-> << >>]

\* schema.ResourceData.Set
Set(data, key, value) ==
    [k \in DOMAIN data \cup {key} |-> IF k = key THEN value ELSE data[k]]

ChecksumField(a) ==
    CASE a = "MD5" -> "checksum_md5" [] a = "SHA1" -> "checksum_sha1"
      [] a = "SHA256" -> "checksum_sha256" [] a = "SHA512" -> "checksum_sha512"

\* A d.Set sequence with the values pasted one field off.
SetChecksumsShifted(data, sums) ==
    [k \in DOMAIN data \cup {ChecksumField(a) : a \in AlgSet} |->
        IF k = "checksum_md5" THEN sums["SHA1"]
        ELSE IF k = "checksum_sha1" THEN sums["SHA256"]
        ELSE IF k = "checksum_sha256" THEN sums["SHA512"]
        ELSE IF k = "checksum_sha512" THEN sums["MD5"]
        ELSE data[k]]

\* d.Set of the four checksum_* fields.
SetChecksums(data, sums) ==
    [k \in DOMAIN data \cup {ChecksumField(a) : a \in AlgSet} |->
        IF \E a \in AlgSet : k = ChecksumField(a)
        THEN sums[CHOOSE a \in AlgSet : k = ChecksumField(a)]
        ELSE data[k]]

\* A write that leaves no other file in the directory.
WriteFileAlone(fs, path, content) == [q \in {path} |-> content]

\* os.Create followed by io.Copy: the file at path holds exactly content.
WriteFile(fs, path, content) ==
    [q \in DOMAIN fs \cup {path} |-> IF q = path THEN content ELSE fs[q]]

EmptyFS == [q \in {} |-> << >>]

\* The idle state of the specifications that are not running.
NoDigest == [phase |-> "idle"]

NoPair == [phase |-> "idle"]

----------------------------------------------------------------------------
\* downloadPackage(downloadUrl, downloadDir, pc, bustCache): every result
\* the call can have on file system fs.  A result is the returned path and
\* error, the requests handed to client.Do, and the file system afterwards.

\* A request URL that is never rewritten.
RequestURLPlain(downloadUrl, bustCache, timestamp) == urlParse(downloadUrl)

\* The request URL: the parsed downloadUrl, with "time" set when bustCache.
RequestURL(downloadUrl, bustCache, timestamp) ==
    LET parsedURL == urlParse(downloadUrl)
    IN  IF bustCache
        THEN [parsedURL EXCEPT
                !.RawQuery = Encode(QuerySet(Query(parsedURL.RawQuery), "time",
                                             FormatInt(timestamp)))]
        ELSE parsedURL

DownloadResult(path, e, sent, fs) ==
    [outputPath |-> path, err |-> e, sent |-> sent, files |-> fs]

\* A request as the server sees it, with the answer it gave: status 0 and
\* no body when the transport failed.
Exchange(url, bustCache, timestamp, status, body) ==
    [URL |-> url, bustCache |-> bustCache, at |-> timestamp,
     status |-> status, body |-> body]

StatusError(downloadUrl, code) ==
    [kind |-> "status",
     msg  |-> <<"failed to download file: ">> \o downloadUrl
              \o <<", status code: ">> \o FormatInt(code)]

downloadPackage(downloadUrl, downloadDir, bustCache, fs, timestamp) ==
    IF ~urlValid(downloadUrl)
    THEN {DownloadResult(<< >>, Error("request"), << >>, fs)}
    ELSE
      LET url == RequestURL(downloadUrl, bustCache, timestamp)
          filename == Base(downloadUrl)
          path == Join(downloadDir, filename)
          req(status, body) == <<Exchange(url, bustCache, timestamp, status, body)>>
      IN  {DownloadResult(<< >>, Error("transport"), req(0, << >>), fs)}
          \cup {DownloadResult(<< >>, StatusError(downloadUrl, code), req(code, << >>), fs) :
                  code \in Statuses \ {StatusOK}}
          \cup {DownloadResult(<< >>, Error("create"), req(StatusOK, body), fs) :
                  body \in Blobs}
          \cup UNION {{DownloadResult(<< >>, Error("copy"), req(StatusOK, body),
                                       WriteFile(fs, path, part)) :
                          part \in Prefixes(body)} : body \in Blobs}
          \cup {DownloadResult(path, NoError, req(StatusOK, body),
                               WriteFile(fs, path, body)) :
                  body \in Blobs}

\* time.Now().Unix() is read only when bustCache is set; the clock may then
\* show any second.
Clock == 1..MaxClock

Downloads(downloadUrl, downloadDir, bustCache, fs) ==
    UNION {downloadPackage(downloadUrl, downloadDir, bustCache, fs, timestamp) :
             timestamp \in IF bustCache THEN Clock ELSE {0}}

\* A comparison that looks at the MD5 digest only.
MismatchMD5Only(sums, p) == sums["MD5"] # p.Checksum["MD5"]

\* A comparison that never finds the digests equal.
MismatchAlways(sums, p) == TRUE

\* The comparison of the local digests with the API's (lines 89 and 109).
Mismatch(sums, p) == \E a \in AlgSet : sums[a] # p.Checksum[a]

\* The error text built when the retry mismatches too.
RECURSIVE MismatchMessage(_, _, _)
MismatchMessage(sums, p, i) ==
    IF i > Len(Algs) THEN << >>
    ELSE (IF sums[Algs[i]] # p.Checksum[Algs[i]]
          THEN checksumMismatchError(sums[Algs[i]], p.Checksum[Algs[i]], <<Algs[i]>>)
               \o <<"\n">>
          ELSE << >>)
         \o MismatchMessage(sums, p, i + 1)

----------------------------------------------------------------------------
\* The handles a call holds.  kind says how the call ended: the kind of the
\* error it returned, or "nil".

\* What downloadPackage opened before it returned: the response body once
\* client.Do answered, the output file once os.Create succeeded.
downloadOpened(kind) ==
    CASE kind \in {"request", "transport"} -> {}
      [] kind \in {"status", "create"} -> {"resp.Body"}
      [] kind \in {"copy", "nil"} -> {"resp.Body", "outputFile"}

\* A downloadPackage that closes the output file on its success path only.
downloadDeferredOnSuccess(kind) ==
    CASE kind \in {"request", "transport"} -> << >>
      [] kind \in {"status", "create", "copy"} -> <<"resp.Body">>
      [] kind = "nil" -> <<"resp.Body", "outputFile">>

\* The closes it had deferred by then (lines 176 and 190), in order.
downloadDeferred(kind) ==
    CASE kind \in {"request", "transport"} -> << >>
      [] kind \in {"status", "create"} -> <<"resp.Body">>
      [] kind \in {"copy", "nil"} -> <<"resp.Body", "outputFile">>

\* What calculateChecksums opened, and the close it deferred (line 207).
checksumsOpened(kind) == IF kind = "open" THEN {} ELSE {"file"}

checksumsDeferred(kind) == IF kind = "open" THEN << >> ELSE <<"file">>

\* The handles still open when the call has returned and its defers ran.
LeftOpen(opened, deferred) == opened \ {deferred[i] : i \in 1..Len(deferred)}

----------------------------------------------------------------------------
\* dataSourcePackageRead, one action per external call it makes together
\* with the code that runs up to the next call.

\* The bustCache argument of the first and of the second downloadPackage call.
FirstBustCache == FALSE

RetryWithoutBust == FALSE

RetryBustCache == TRUE

Init ==
    /\ pc = "read"
    /\ pkg = NoPackage
    /\ cfg \in [download : BOOLEAN, download_dir : {<<"tmp">>}, ignore_checksums : BOOLEAN]
    /\ d = [k \in {} |-> << >>]
    /\ outputPath = << >>
    /\ local = [a \in AlgSet |-> << >>]
    /\ files = EmptyFS
    /\ requests = << >>
    /\ observed = << >>
    /\ stdout = << >>
    /\ err = NoError
    /\ handles = {}
    /\ dig = NoDigest
    /\ conc = NoPair
    /\ twin = NoPair

\* PackagesReadExecute fails: the handler returns the error.
PackagesReadFail ==
    /\ pc = "read"
    /\ err' = Error("api")
    /\ pc' = "done"
    /\ UNCHANGED <<pkg, cfg, d, outputPath, local, files, requests, observed, stdout>>
    /\ UNCHANGED <<handles, others>>

\* A handler that reports the download directory also when nothing is
\* downloaded.
PackagesReadKeepsDir ==
    /\ pc = "read"
    /\ \E p \in Packages :
        /\ pkg' = p
        /\ LET d1 == SetChecksums(Set(d, "cdn_url", p.CdnUrl), p.Checksum)
           IN  IF cfg.download
               THEN d' = d1 /\ pc' = "download1"
               ELSE /\ d' = Set(Set(d1, "output_path", p.CdnUrl),
                                "output_directory", cfg.download_dir)
                    /\ pc' = "done"
    /\ UNCHANGED <<cfg, outputPath, local, files, requests, observed, stdout, err>>
    /\ UNCHANGED <<handles, others>>

\* PackagesReadExecute answers: the metadata fields are set; without
\* download the CDN URL is reported and the handler returns.
PackagesRead ==
    /\ pc = "read"
    /\ \E p \in Packages :
        /\ pkg' = p
        /\ LET d1 == SetChecksums(Set(d, "cdn_url", p.CdnUrl), p.Checksum)
           IN  IF cfg.download
               THEN d' = d1 /\ pc' = "download1"
               ELSE /\ d' = Set(Set(d1, "output_path", p.CdnUrl), "output_directory", << >>)
                    /\ pc' = "done"
    /\ UNCHANGED <<cfg, outputPath, local, files, requests, observed, stdout, err>>
    /\ UNCHANGED <<handles, others>>

\* A first download whose failure is answered by the cache-busting retry.
Download1RetryOnError ==
    /\ pc = "download1"
    /\ \E r \in Downloads(pkg.CdnUrl, cfg.download_dir, FirstBustCache, files) :
        /\ requests' = requests \o r.sent
        /\ files' = r.files
        /\ handles' = handles \cup LeftOpen(downloadOpened(r.err.kind),
                                              downloadDeferred(r.err.kind))
        /\ IF r.err # NoError
           THEN /\ pc' = "download2"
                /\ UNCHANGED <<d, outputPath, err>>
           ELSE /\ outputPath' = r.outputPath
                /\ d' = Set(Set(d, "output_path", r.outputPath),
                            "output_directory", cfg.download_dir)
                /\ pc' = "checksums1"
                /\ UNCHANGED err
    /\ UNCHANGED <<pkg, cfg, local, observed, stdout, others>>

\* A first download that sets output_path and output_directory before it
\* looks at the error.
Download1SetBeforeCheck ==
    /\ pc = "download1"
    /\ \E r \in Downloads(pkg.CdnUrl, cfg.download_dir, FirstBustCache, files) :
        /\ requests' = requests \o r.sent
        /\ files' = r.files
        /\ handles' = handles \cup LeftOpen(downloadOpened(r.err.kind),
                                              downloadDeferred(r.err.kind))
        /\ d' = Set(Set(d, "output_path", r.outputPath),
                    "output_directory", cfg.download_dir)
        /\ IF r.err # NoError
           THEN /\ err' = r.err
                /\ pc' = "done"
                /\ UNCHANGED outputPath
           ELSE /\ outputPath' = r.outputPath
                /\ pc' = "checksums1"
                /\ UNCHANGED err
    /\ UNCHANGED <<pkg, cfg, local, observed, stdout, others>>

\* The first downloadPackage call, bustCache = false.
Download1 ==
    /\ pc = "download1"
    /\ \E r \in Downloads(pkg.CdnUrl, cfg.download_dir, FirstBustCache, files) :
        /\ requests' = requests \o r.sent
        /\ files' = r.files
        /\ handles' = handles \cup LeftOpen(downloadOpened(r.err.kind),
                                              downloadDeferred(r.err.kind))
        /\ IF r.err # NoError
           THEN /\ err' = r.err
                /\ pc' = "done"
                /\ UNCHANGED <<d, outputPath>>
           ELSE /\ outputPath' = r.outputPath
                /\ d' = Set(Set(d, "output_path", r.outputPath),
                            "output_directory", cfg.download_dir)
                /\ pc' = "checksums1"
                /\ UNCHANGED err
    /\ UNCHANGED <<pkg, cfg, local, observed, stdout, others>>

\* calculateChecksums fails to open or to read the file.
ChecksumsFail ==
    /\ pc \in {"checksums1", "checksums2"}
    /\ \E kind \in {"open", "read"} :
          /\ err' = Error(kind)
          /\ handles' = handles \cup LeftOpen(checksumsOpened(kind), checksumsDeferred(kind))
    /\ pc' = "done"
    /\ UNCHANGED <<pkg, cfg, d, outputPath, local, files, requests, observed, stdout, others>>

\* A first comparison that fails the run at once instead of retrying.
Checksums1FailFast ==
    /\ pc = "checksums1"
    /\ outputPath \in DOMAIN files
    /\ LET localChecksums == calculateChecksums(files[outputPath])
       IN  /\ local' = localChecksums
           /\ observed' = Append(observed, localChecksums)
           /\ pc' = "done"
           /\ IF Mismatch(localChecksums, pkg)
              THEN /\ err' = [kind |-> "mismatch",
                              msg |-> MismatchMessage(localChecksums, pkg, 1)]
                   /\ UNCHANGED d
              ELSE /\ d' = SetChecksums(d, localChecksums)
                   /\ UNCHANGED err
    /\ handles' = handles \cup LeftOpen(checksumsOpened("nil"), checksumsDeferred("nil"))
    /\ UNCHANGED <<pkg, cfg, outputPath, files, requests, stdout, others>>

\* calculateChecksums of the first download and the first comparison.
Checksums1 ==
    /\ pc = "checksums1"
    /\ outputPath \in DOMAIN files
    /\ LET localChecksums == calculateChecksums(files[outputPath])
       IN  /\ local' = localChecksums
           /\ observed' = Append(observed, localChecksums)
           /\ IF Mismatch(localChecksums, pkg)
              THEN pc' = "download2" /\ UNCHANGED d
              ELSE pc' = "done" /\ d' = SetChecksums(d, localChecksums)
    /\ handles' = handles \cup LeftOpen(checksumsOpened("nil"), checksumsDeferred("nil"))
    /\ UNCHANGED <<pkg, cfg, outputPath, files, requests, stdout, err, others>>

\* The second downloadPackage call, bustCache = true.
Download2 ==
    /\ pc = "download2"
    /\ \E r \in Downloads(pkg.CdnUrl, cfg.download_dir, RetryBustCache, files) :
        /\ requests' = requests \o r.sent
        /\ files' = r.files
        /\ handles' = handles \cup LeftOpen(downloadOpened(r.err.kind),
                                              downloadDeferred(r.err.kind))
        /\ IF r.err # NoError
           THEN /\ err' = r.err
                /\ pc' = "done"
                /\ UNCHANGED <<outputPath, stdout>>
           ELSE /\ outputPath' = r.outputPath
                /\ stdout' = Append(stdout,
                       "Package pulled again with bustCache due to checksum mismatch.")
                /\ pc' = "checksums2"
                /\ UNCHANGED err
    /\ UNCHANGED <<pkg, cfg, d, local, observed, others>>

\* A second comparison whose digests shadow localMD5..localSHA512: the
\* fields set at the end are those of the first attempt.
Checksums2Shadowed ==
    /\ pc = "checksums2"
    /\ outputPath \in DOMAIN files
    /\ LET localChecksums == calculateChecksums(files[outputPath])
       IN  /\ local' = local
           /\ observed' = Append(observed, localChecksums)
           /\ pc' = "done"
           /\ IF Mismatch(localChecksums, pkg)
              THEN IF cfg.ignore_checksums
                   THEN /\ stdout' = Append(stdout,
                              "Warning: ignore_checksums set to true, downloading mismatched checksum file.")
                        /\ d' = SetChecksums(SetChecksums(d, localChecksums), local)
                        /\ UNCHANGED err
                   ELSE /\ err' = [kind |-> "mismatch",
                                   msg |-> MismatchMessage(localChecksums, pkg, 1)]
                        /\ UNCHANGED <<d, stdout>>
              ELSE /\ d' = SetChecksums(d, local)
                   /\ UNCHANGED <<stdout, err>>
    /\ handles' = handles \cup LeftOpen(checksumsOpened("nil"), checksumsDeferred("nil"))
    /\ UNCHANGED <<pkg, cfg, outputPath, files, requests, others>>

\* calculateChecksums of the second download, the second comparison and the
\* decision on ignore_checksums.
Checksums2 ==
    /\ pc = "checksums2"
    /\ outputPath \in DOMAIN files
    /\ LET localChecksums == calculateChecksums(files[outputPath])
       IN  /\ local' = localChecksums
           /\ observed' = Append(observed, localChecksums)
           /\ pc' = "done"
           /\ IF Mismatch(localChecksums, pkg)
              THEN IF cfg.ignore_checksums
                   THEN /\ stdout' = Append(stdout,
                              "Warning: ignore_checksums set to true, downloading mismatched checksum file.")
                        /\ d' = SetChecksums(SetChecksums(d, localChecksums), localChecksums)
                        /\ UNCHANGED err
                   ELSE /\ err' = [kind |-> "mismatch",
                                   msg |-> MismatchMessage(localChecksums, pkg, 1)]
                        /\ UNCHANGED <<d, stdout>>
              ELSE /\ d' = SetChecksums(d, localChecksums)
                   /\ UNCHANGED <<stdout, err>>
    /\ handles' = handles \cup LeftOpen(checksumsOpened("nil"), checksumsDeferred("nil"))
    /\ UNCHANGED <<pkg, cfg, outputPath, files, requests, others>>

Next ==
    \/ PackagesReadFail
    \/ PackagesRead
    \/ Download1
    \/ ChecksumsFail
    \/ Checksums1
    \/ Download2
    \/ Checksums2

Spec == Init /\ [][Next]_vars

----------------------------------------------------------------------------
\* Outcomes of a run with download = true.

IgnoreWarning ==
    "Warning: ignore_checksums set to true, downloading mismatched checksum file."

Returned == pc = "done"

TookIgnoreBranch == \E i \in 1..Len(stdout) : stdout[i] = IgnoreWarning

Verified == Returned /\ cfg.download /\ err = NoError /\ ~TookIgnoreBranch

AcceptedWithMismatch == Returned /\ cfg.download /\ err = NoError /\ TookIgnoreBranch

Failed == Returned /\ err.kind = "mismatch"

\* The digests of the bytes the server served on the i-th fetch.
ServedDigests(i) == calculateChecksums(requests[i].body)

\* The i-th fetch was answered, written to disk and its digests computed.
Attempted(i) == Len(requests) >= i /\ Len(observed) >= i

\* The key of a raw query string holding key "time".
HasTime(url) == "time" \in DOMAIN Query(url.RawQuery)

----------------------------------------------------------------------------
\* C1: a run never ends Verified unless every algorithm that ExpectedDigests
\* holds has an observed digest, on the last attempt, that matches the
\* expected one (hex compared without regard to letter case).
C1_VerifiedOnlyIfMatch ==
    Verified =>
        \A a \in AlgSet :
            pkg.Checksum[a] # << >> =>
                /\ Len(observed) >= 1
                /\ ToLower(observed[Len(observed)][a]) = ToLower(pkg.Checksum[a])
                /\ observed[Len(observed)] = ServedDigests(Len(requests))

\* A run verified on the retry, with all four digests expected.
C1_Witness ==
    /\ Verified
    /\ Len(requests) = 2
    /\ \A a \in AlgSet : pkg.Checksum[a] # << >>

\* C2: when the digests of the bytes served (and persisted) on the first
\* attempt equal ExpectedDigests, exactly one fetch is issued and the run
\* ends Verified, whatever ignore_checksums is.
C2_MatchVerifiedOneFetch ==
    (Attempted(1) /\ ServedDigests(1) = pkg.Checksum) =>
        /\ Len(requests) = 1
        /\ pc = "done"
        /\ Verified

\* Such a run with ignore_checksums set.
C2_Witness ==
    /\ Attempted(1)
    /\ ServedDigests(1) = pkg.Checksum
    /\ cfg.ignore_checksums
    /\ Verified

\* C3 as stated: first attempt mismatches, second matches: Verified, two
\* fetches, and the second request has a "time" parameter (the clock's
\* reading) that the first request does not have.
C3_RetryResolves_Original ==
    (Attempted(2) /\ ServedDigests(1) # pkg.Checksum /\ ServedDigests(2) = pkg.Checksum) =>
        /\ Verified
        /\ Len(requests) = 2
        /\ HasTime(requests[2].URL)
        /\ Query(requests[2].URL.RawQuery)["time"] = FormatInt(requests[2].at)
        /\ ~HasTime(requests[1].URL)

\* C3 amended: first attempt mismatches, second matches: Verified, two
\* fetches; the first request carries the CDN URL's own query unchanged, the
\* second carries the same parameters with "time" set to the clock's reading,
\* so "time" is absent from the first request unless the CDN URL has one.
C3_RetryResolves ==
    (Attempted(2) /\ ServedDigests(1) # pkg.Checksum /\ ServedDigests(2) = pkg.Checksum) =>
        /\ Verified
        /\ Len(requests) = 2
        /\ requests[1].URL = urlParse(pkg.CdnUrl)
        /\ requests[2].URL.Path = requests[1].URL.Path
        /\ HasTime(requests[2].URL)
        /\ Query(requests[2].URL.RawQuery)["time"] = FormatInt(requests[2].at)
        /\ \A k \in DOMAIN Query(requests[1].URL.RawQuery) \ {"time"} :
              /\ k \in DOMAIN Query(requests[2].URL.RawQuery)
              /\ Query(requests[2].URL.RawQuery)[k] = Query(requests[1].URL.RawQuery)[k]
        /\ DOMAIN Query(requests[2].URL.RawQuery)
              = DOMAIN Query(requests[1].URL.RawQuery) \cup {"time"}
        /\ (~HasTime(urlParse(pkg.CdnUrl)) => ~HasTime(requests[1].URL))

\* A retry that resolved the mismatch, on a CDN URL with another parameter.
C3_Witness ==
    /\ Attempted(2)
    /\ ServedDigests(1) # pkg.Checksum
    /\ ServedDigests(2) = pkg.Checksum
    /\ Verified
    /\ "sig" \in DOMAIN Query(requests[1].URL.RawQuery)
    /\ requests[2].at = MaxClock

\* C4: at most two fetches; the first has bustCache = false; a second is
\* issued only after the first attempt's digests mismatched and always has
\* bustCache = true; once the second attempt's digests are computed and
\* compared the run has returned with no further fetch.
C4_AtMostOneRetry ==
    /\ Len(requests) <= 2
    /\ Len(requests) >= 1 => ~requests[1].bustCache
    /\ Len(requests) >= 2 =>
          /\ requests[2].bustCache
          /\ Len(observed) >= 1
          /\ observed[1] # pkg.Checksum
          /\ observed[1] = ServedDigests(1)
    /\ Len(observed) <= Len(requests)
    /\ Len(observed) = 2 => (pc = "done" /\ Len(requests) = 2)

\* Both attempts compared and the run has returned.
C4_Witness ==
    /\ Len(observed) = 2
    /\ Len(requests) = 2
    /\ pc = "done"

----------------------------------------------------------------------------
\* The failure report, read back from the error text.

\* The lines of the report: the pieces of the text between "\n" tokens.
ReportLines(msg) == SelectSeq(Split(msg, "\n"), LAMBDA line : line # << >>)

\* The algorithms the report has an entry for, in the order of the entries.
ReportedAlgs(msg) == SelectSeq(msg, LAMBDA t : t \in AlgSet)

\* The algorithms ExpectedDigests holds whose observed digest differs.
Differing(sums) ==
    SelectSeq(Algs, LAMBDA a : pkg.Checksum[a] # << >> /\ sums[a] # pkg.Checksum[a])

\* Every algorithm that ExpectedDigests holds was observed equal on attempt i.
PresentMatch(i) ==
    \A a \in AlgSet : pkg.Checksum[a] # << >> => observed[i][a] = pkg.Checksum[a]

\* C5: an algorithm absent from ExpectedDigests is left out of the
\* comparison: when every present algorithm matches on the first attempt there
\* is no retry and the run ends neither Failed nor AcceptedWithMismatch, and a
\* failure report never has a line for an absent algorithm.
C5_AbsentExcluded ==
    /\ (Attempted(1) /\ PresentMatch(1)) =>
          /\ Len(requests) = 1
          /\ ~Failed
          /\ ~AcceptedWithMismatch
    /\ Failed =>
          \A a \in AlgSet :
              pkg.Checksum[a] = << >> =>
                  \A i \in 1..Len(ReportedAlgs(err.msg)) : ReportedAlgs(err.msg)[i] # a

\* C6: with all four expected digests absent, a run whose fetch succeeded
\* ends Verified after exactly one fetch, whatever ignore_checksums is.
C6_NoAssertionsVerified ==
    (Attempted(1) /\ \A a \in AlgSet : pkg.Checksum[a] = << >>) =>
        /\ Len(requests) = 1
        /\ Verified

\* C7: an expected digest that differs from the observed one only in letter
\* case counts as a match: the run ends Verified after one fetch.
C7_CaseInsensitive ==
    (Attempted(1) /\ \A a \in AlgSet : ToLower(pkg.Checksum[a]) = observed[1][a]) =>
        /\ Len(requests) = 1
        /\ Verified

\* C8: when both attempts mismatch and ignore_checksums is false the run ends
\* Failed, and the report has, in the order MD5, SHA1, SHA256, SHA512, exactly
\* one entry for each algorithm ExpectedDigests holds whose digest on the
\* second attempt differs, and no other entry.
C8_ReportListsMismatches ==
    (Attempted(2) /\ Differing(ServedDigests(1)) # << >> /\ Differing(ServedDigests(2)) # << >>
       /\ ~cfg.ignore_checksums) =>
        /\ Failed
        /\ ReportedAlgs(err.msg) = Differing(ServedDigests(2))

\* C9: every line of the failure report reads
\* "Checksum mismatch (<algorithm>): expected=<expected>, got=<observed>".
C9_ReportLineFormat ==
    Failed =>
        \A i \in 1..Len(ReportLines(err.msg)) :
            \E a \in AlgSet :
                ReportLines(err.msg)[i] = Sprintf3(<<a>>, pkg.Checksum[a], observed[2][a])

\* C10: when both attempts mismatch and ignore_checksums is true the run
\* returns without error as AcceptedWithMismatch, and the four digests set
\* for the caller are those of the second attempt's file, not the expected.
C10_AcceptedReportsObserved ==
    (Attempted(2) /\ ServedDigests(1) # pkg.Checksum /\ ServedDigests(2) # pkg.Checksum
       /\ cfg.ignore_checksums) =>
        /\ err = NoError
        /\ AcceptedWithMismatch
        /\ outputPath \in DOMAIN files
        /\ \A a \in AlgSet :
              /\ ChecksumField(a) \in DOMAIN d
              /\ d[ChecksumField(a)] = calculateChecksums(files[outputPath])[a]
              /\ d[ChecksumField(a)] = ServedDigests(2)[a]
        /\ \E a \in AlgSet : d[ChecksumField(a)] # pkg.Checksum[a]

\* An accepted run whose second attempt served other bytes than the first.
C10_Witness ==
    /\ AcceptedWithMismatch
    /\ Attempted(2)
    /\ requests[1].body # requests[2].body
    /\ \A a \in AlgSet : pkg.Checksum[a] # << >>

----------------------------------------------------------------------------
\* Errors that abort a run.

FetchErrors == {"request", "transport", "status", "create", "copy"}

ChecksumErrors == {"open", "read"}

FatalErrors == FetchErrors \cup ChecksumErrors

\* The four checksum_* fields hold exactly sums.
ReportsDigests(sums) ==
    \A a \in AlgSet : ChecksumField(a) \in DOMAIN d /\ d[ChecksumField(a)] = sums[a]

\* C11: a first attempt answered with a non-2xx status, or not answered at
\* all, makes the run return that error at once: one fetch, no digest
\* computed or compared, whatever ignore_checksums is.
C11_Non2xxFatal ==
    (Len(requests) >= 1 /\ requests[1].status \notin 200..299) =>
        /\ pc = "done"
        /\ err.kind \in {"transport", "status"}
        /\ Len(requests) = 1
        /\ observed = << >>
        /\ \A a \in AlgSet : local[a] = << >>
        /\ ~ENABLED Next

\* A 404 on the first attempt of a run with ignore_checksums set.
C11_Witness ==
    /\ Len(requests) = 1
    /\ requests[1].status = 404
    /\ cfg.ignore_checksums
    /\ pc = "done"

\* C12: a checksum-mismatch error is returned only after two fetches, when
\* the digests of the second, cache-busted fetch still mismatch and
\* ignore_checksums is false.
C12_FailedOnlyAfterRetry ==
    err.kind = "mismatch" =>
        /\ pc = "done"
        /\ ~cfg.ignore_checksums
        /\ Len(requests) = 2
        /\ requests[2].bustCache
        /\ requests[2].status = StatusOK
        /\ Len(observed) = 2
        /\ observed[1] # pkg.Checksum
        /\ observed[2] # pkg.Checksum
        /\ observed[2] = ServedDigests(2)

\* A failed run whose second attempt served other bytes than the first.
C12_Witness ==
    /\ Failed
    /\ Len(requests) = 2
    /\ requests[1].body # requests[2].body

\* What C13 says of every fatal error alike.
AbortedAtOnce ==
    /\ pc = "done"
    /\ ~ENABLED Next
    /\ IF err.kind = "request" THEN requests = << >> /\ observed = << >>
       ELSE Len(requests) >= 1 /\ Len(observed) = Len(requests) - 1
    /\ ReportsDigests(pkg.Checksum)
    /\ Len(observed) >= 1 => ~ReportsDigests(observed[1])

\* C13 as stated: after a fatal error the run has returned at once, and
\* output path, output directory and observed digests are all unset.
C13_NoPartialOutcome_Original ==
    err.kind \in FatalErrors =>
        /\ AbortedAtOnce
        /\ "output_path" \notin DOMAIN d
        /\ "output_directory" \notin DOMAIN d

\* C13 amended: after a fatal error the run has returned at once and the
\* observed digests are not set (the checksum fields still hold the
\* metadata's digests); output path and output directory are unset when the
\* first fetch failed, and already set when a later step failed.
C13_NoPartialOutcome ==
    err.kind \in FatalErrors =>
        /\ AbortedAtOnce
        /\ IF err.kind \in FetchErrors /\ Len(requests) <= 1
           THEN "output_path" \notin DOMAIN d /\ "output_directory" \notin DOMAIN d
           ELSE /\ "output_path" \in DOMAIN d /\ d["output_path"] = outputPath
                /\ "output_directory" \in DOMAIN d
                /\ d["output_directory"] = cfg.download_dir

\* A copy failure on the second attempt.
C13_Witness ==
    /\ err.kind = "copy"
    /\ Len(requests) = 2
    /\ "output_path" \in DOMAIN d

\* C14: without download no fetch is issued and no digest computed; the
\* output path is the CDN URL, the output directory is empty and the four
\* digests are the metadata's, whatever ignore_checksums is.
C14_NoDownloadPassThrough ==
    ~cfg.download =>
        /\ requests = << >>
        /\ observed = << >>
        /\ files = EmptyFS
        /\ \A a \in AlgSet : local[a] = << >>
        /\ (pc = "done" /\ err = NoError) =>
              /\ "output_path" \in DOMAIN d /\ d["output_path"] = pkg.CdnUrl
              /\ "output_directory" \in DOMAIN d /\ d["output_directory"] = << >>
              /\ ReportsDigests(pkg.Checksum)

\* Such a run with ignore_checksums set and an uppercase digest passed on.
C14_Witness ==
    /\ ~cfg.download
    /\ cfg.ignore_checksums
    /\ pc = "done"
    /\ err = NoError
    /\ pkg.Checksum["MD5"] = ToUpper(calculateChecksums(Published)["MD5"])
    /\ ReportsDigests(pkg.Checksum)

\* The file name the spec gives: the base name of the URL's path component.
PathBase(u) == Base(urlParse(u).Path)

\* C16: the file written is download_dir/<base name of the URL's path>,
\* whatever the URL's query string is.
C16_FileNameFromPath ==
    outputPath # << >> => outputPath = Join(cfg.download_dir, PathBase(pkg.CdnUrl))

\* C17: whichever way downloadPackage or calculateChecksums returned, no
\* response body and no file it opened is still open.
C17_NoHandleLeft ==
    handles = {}

\* A run that ended on a copy failure after a completed first attempt.
C17_Witness ==
    /\ pc = "done"
    /\ err.kind = "copy"
    /\ Len(observed) = 1

\* C19: on an error-free return of a run with download = true, the reported
\* path is the one the last fetch wrote and the four reported digests are
\* those of the bytes that fetch wrote.
C19_ReportsLastAttempt ==
    (pc = "done" /\ err = NoError /\ cfg.download) =>
        /\ Len(requests) \in {1, 2}
        /\ Len(observed) = Len(requests)
        /\ "output_path" \in DOMAIN d
        /\ d["output_path"] = outputPath
        /\ d["output_path"] = Join(cfg.download_dir, Base(pkg.CdnUrl))
        /\ outputPath \in DOMAIN files
        /\ files[outputPath] = requests[Len(requests)].body
        /\ ReportsDigests(ServedDigests(Len(requests)))
        /\ ReportsDigests(observed[Len(observed)])

\* A run verified on the retry: the first attempt's digests are superseded.
C19_Witness ==
    /\ Verified
    /\ Len(requests) = 2
    /\ ServedDigests(1) # ServedDigests(2)

----------------------------------------------------------------------------
\* calculateChecksums chunk by chunk: io.Copy reads the file in chunks of any
\* size and hands each chunk to the io.MultiWriter, which writes it to every
\* hash in turn (line 214); at end of file the sums are encoded (218-221).

\* The variables of dataSourcePackageRead, at rest in this specification.
runVars == <<pc, pkg, cfg, d, outputPath, local, files, requests, observed, stdout, err,
             handles>>

IdleRun ==
    /\ pc = "idle"
    /\ pkg = NoPackage
    /\ cfg = [download |-> FALSE, download_dir |-> <<"tmp">>, ignore_checksums |-> FALSE]
    /\ d = [k \in {} |-> << >>]
    /\ outputPath = << >>
    /\ local = [a \in AlgSet |-> << >>]
    /\ files = EmptyFS
    /\ requests = << >>
    /\ observed = << >>
    /\ stdout = << >>
    /\ err = NoError
    /\ handles = {}

DigestContents == SeqsUpTo(DigestByteValues, MaxDigestLen)

\* The order in which the MultiWriter holds the four hashes: the code's, and
\* two others to see that the order is immaterial.
WriterOrders ==
    { Algs,
      <<"SHA512", "SHA256", "SHA1", "MD5">>,
      <<"SHA1", "SHA512", "MD5", "SHA256">> }

\* A MultiWriter that stops after its first writer.
RECURSIVE MultiWriteFirstOnly(_, _, _, _)
MultiWriteFirstOnly(order, hash, chunk, i) ==
    IF i > 1 THEN hash
    ELSE MultiWriteFirstOnly(order,
             [hash EXCEPT ![order[i]] = HashWrite(order[i], hash[order[i]], chunk)],
             chunk, i + 1)

\* io.MultiWriter.Write: the chunk goes to every writer from the i-th on.
RECURSIVE MultiWrite(_, _, _, _)
MultiWrite(order, hash, chunk, i) ==
    IF i > Len(order) THEN hash
    ELSE MultiWrite(order,
             [hash EXCEPT ![order[i]] = HashWrite(order[i], hash[order[i]], chunk)],
             chunk, i + 1)

DigestInit ==
    /\ IdleRun
    /\ conc = NoPair
    /\ twin = NoPair
    /\ dig \in { [phase |-> "copy", content |-> B, rest |-> B, order |-> o,
                  chunks |-> 0,
                  hash |-> [a \in AlgSet |-> New(a)],
                  sums |-> [a \in {} |-> << >>]] :
                 B \in DigestContents, o \in WriterOrders }

\* io.Copy moves one chunk from the file to the MultiWriter.
DigestChunk ==
    /\ dig.phase = "copy"
    /\ dig.rest # << >>
    /\ \E n \in 1..Len(dig.rest) :
          dig' = [dig EXCEPT
                    !.hash = MultiWrite(dig.order, dig.hash, SubSeq(dig.rest, 1, n), 1),
                    !.rest = SubSeq(dig.rest, n + 1, Len(dig.rest)),
                    !.chunks = dig.chunks + 1]
    /\ UNCHANGED <<runVars, conc, twin>>

\* End of file: the four sums are taken and encoded.
DigestSums ==
    /\ dig.phase = "copy"
    /\ dig.rest = << >>
    /\ dig' = [dig EXCEPT
                 !.phase = "done",
                 !.sums = [a \in AlgSet |-> EncodeToString(HashSum(a, dig.hash[a]))]]
    /\ UNCHANGED <<runVars, conc, twin>>

DigestNext ==
    \/ DigestChunk
    \/ DigestSums

SpecDigest == DigestInit /\ [][DigestNext]_vars

\* C18: however the bytes are split into chunks and whatever the order of the
\* four hashes, all four digests are produced and each equals the digest of
\* the whole byte sequence hashed by that algorithm alone.
C18_FanOut ==
    dig.phase = "done" =>
        /\ DOMAIN dig.sums = AlgSet
        /\ \A a \in AlgSet :
              dig.sums[a] = EncodeToString(HashSum(a, HashWrite(a, New(a), dig.content)))
        /\ dig.sums = calculateChecksums(dig.content)

\* A file of the longest length read in more than one chunk, with the
\* hashes in another order than the code's.
C18_Witness ==
    /\ dig.phase = "done"
    /\ Len(dig.content) = MaxDigestLen
    /\ dig.chunks > 1
    /\ dig.order # Algs

----------------------------------------------------------------------------
\* dataSourcePackageRead as a function of what the environment does: one
\* invocation is a record of its own variables, and an outcome says what the
\* API, the CDN, the disk and the clock do at the call the invocation makes
\* next.  Several invocations can then be followed side by side.

NewRun(config) ==
    [pc |-> "read", pkg |-> NoPackage, cfg |-> config,
     d |-> [k \in {} |-> << >>], outputPath |-> << >>,
     local |-> [a \in AlgSet |-> << >>],
     requests |-> << >>, observed |-> << >>, stdout |-> << >>, err |-> NoError]

\* The outcome in which every call succeeds and the CDN serves no bytes.
Plain ==
    [api |-> "ok", kind |-> "nil", code |-> StatusOK, body |-> << >>, part |-> << >>,
     at |-> 1, sum |-> "nil"]

ApiOutcomes == {[Plain EXCEPT !.api = a] : a \in {"ok", "fail"}}

\* client.Do fails, answers another status than 200, or answers 200 with a
\* body that os.Create and io.Copy do or do not bring to disk.
FetchOutcomes ==
    {[Plain EXCEPT !.kind = "transport", !.code = 0]}
    \cup {[Plain EXCEPT !.kind = "status", !.code = c] : c \in Statuses \ {StatusOK}}
    \cup {[Plain EXCEPT !.kind = "create", !.body = b] : b \in Blobs}
    \cup UNION {{[Plain EXCEPT !.kind = "copy", !.body = b, !.part = q] :
                    q \in Prefixes(b)} : b \in Blobs}
    \cup {[Plain EXCEPT !.body = b] : b \in Blobs}

SumOutcomes == {[Plain EXCEPT !.sum = k] : k \in {"open", "read", "nil"}}

\* The outcomes the call made at pc can have.
OutcomesAt(at) ==
    CASE at = "read" -> ApiOutcomes
      [] at = "download1" -> FetchOutcomes
      [] at = "download2" -> {[o EXCEPT !.at = t] : o \in FetchOutcomes, t \in Clock}
      [] at \in {"checksums1", "checksums2"} -> SumOutcomes
      [] OTHER -> {}

\* The result of downloadPackage under outcome o: the one that sent nothing
\* when the URL does not parse, the one o describes otherwise.
downloadWith(o, downloadUrl, downloadDir, bustCache, fs) ==
    CHOOSE r \in downloadPackage(downloadUrl, downloadDir, bustCache, fs,
                                 IF bustCache THEN o.at ELSE 0) :
       \/ r.sent = << >>
       \/ /\ r.err.kind = o.kind
          /\ r.sent[1].status = o.code
          /\ r.sent[1].body = o.body
          /\ o.kind = "copy" =>
               r.files = WriteFile(fs, Join(downloadDir, Base(downloadUrl)), o.part)

Stepped(run, fs) == [run |-> run, fs |-> fs]

\* Lines 44-67 and 141-146: the API call and the metadata fields.
StepRead(run, p, fs, o) ==
    IF o.api = "fail"
    THEN Stepped([run EXCEPT !.err = Error("api"), !.pc = "done"], fs)
    ELSE LET d1 == SetChecksums(Set(run.d, "cdn_url", p.CdnUrl), p.Checksum)
         IN  IF run.cfg.download
             THEN Stepped([run EXCEPT !.pkg = p, !.d = d1, !.pc = "download1"], fs)
             ELSE Stepped([run EXCEPT !.pkg = p, !.pc = "done",
                              !.d = Set(Set(d1, "output_path", p.CdnUrl),
                                        "output_directory", << >>)], fs)

\* Lines 71-75 and 92-95: what the handler does with the result r of a
\* downloadPackage call.
Downloaded(run, r) ==
    IF r.err # NoError
    THEN Stepped([run EXCEPT !.requests = run.requests \o r.sent,
                             !.err = r.err, !.pc = "done"], r.files)
    ELSE IF run.pc = "download1"
    THEN Stepped([run EXCEPT !.requests = run.requests \o r.sent,
                             !.outputPath = r.outputPath,
                             !.d = Set(Set(run.d, "output_path", r.outputPath),
                                       "output_directory", run.cfg.download_dir),
                             !.pc = "checksums1"], r.files)
    ELSE Stepped([run EXCEPT !.requests = run.requests \o r.sent,
                             !.outputPath = r.outputPath,
                             !.stdout = Append(run.stdout,
                                 "Package pulled again with bustCache due to checksum mismatch."),
                             !.pc = "checksums2"], r.files)

\* Lines 70 and 91: the first and the second downloadPackage call.
StepDownload(run, p, fs, o) ==
    Downloaded(run,
               downloadWith(o, run.pkg.CdnUrl, run.cfg.download_dir,
                            IF run.pc = "download1" THEN FirstBustCache ELSE RetryBustCache,
                            fs))

\* calculateChecksums fails: os.Open when the outcome says so or the file is
\* not there, the read otherwise.
SumError(run, fs, o) ==
    IF o.sum # "nil" THEN Error(o.sum)
    ELSE IF run.outputPath \notin DOMAIN fs THEN Error("open")
    ELSE NoError

\* The invocation after a calculateChecksums call that returned
\* localChecksums.
Seen(run, localChecksums) ==
    [run EXCEPT !.local = localChecksums,
                !.observed = Append(run.observed, localChecksums)]

\* A first comparison that, with ignore_checksums set, accepts the mismatch
\* without fetching again.
Compared1IgnoreSkipsRetry(run, fs, localChecksums) ==
    IF Mismatch(localChecksums, run.pkg)
    THEN IF run.cfg.ignore_checksums
         THEN Stepped([Seen(run, localChecksums) EXCEPT
                         !.stdout = Append(run.stdout,
                             "Warning: ignore_checksums set to true, downloading mismatched checksum file."),
                         !.d = SetChecksums(run.d, localChecksums),
                         !.pc = "done"], fs)
         ELSE Stepped([Seen(run, localChecksums) EXCEPT !.pc = "download2"], fs)
    ELSE Stepped([Seen(run, localChecksums) EXCEPT
                    !.d = SetChecksums(run.d, localChecksums), !.pc = "done"], fs)

\* Lines 83-89 and 137-140: the first comparison.
Compared1(run, fs, localChecksums) ==
    IF Mismatch(localChecksums, run.pkg)
    THEN Stepped([Seen(run, localChecksums) EXCEPT !.pc = "download2"], fs)
    ELSE Stepped([Seen(run, localChecksums) EXCEPT
                    !.d = SetChecksums(run.d, localChecksums), !.pc = "done"], fs)

\* Lines 103-140: the second comparison and the decision on
\* ignore_checksums.
Compared2(run, fs, localChecksums) ==
    IF Mismatch(localChecksums, run.pkg)
    THEN IF run.cfg.ignore_checksums
         THEN Stepped([Seen(run, localChecksums) EXCEPT
                         !.stdout = Append(run.stdout,
                             "Warning: ignore_checksums set to true, downloading mismatched checksum file."),
                         !.d = SetChecksums(run.d, localChecksums),
                         !.pc = "done"], fs)
         ELSE Stepped([Seen(run, localChecksums) EXCEPT
                         !.err = [kind |-> "mismatch",
                                  msg |-> MismatchMessage(localChecksums, run.pkg, 1)],
                         !.pc = "done"], fs)
    ELSE Stepped([Seen(run, localChecksums) EXCEPT
                    !.d = SetChecksums(run.d, localChecksums), !.pc = "done"], fs)

\* Lines 78-81: the digests of the first download.
StepChecksums1(run, p, fs, o) ==
    IF SumError(run, fs, o) # NoError
    THEN Stepped([run EXCEPT !.err = SumError(run, fs, o), !.pc = "done"], fs)
    ELSE Compared1(run, fs, calculateChecksums(fs[run.outputPath]))

\* Lines 98-101: the digests of the second download.
StepChecksums2(run, p, fs, o) ==
    IF SumError(run, fs, o) # NoError
    THEN Stepped([run EXCEPT !.err = SumError(run, fs, o), !.pc = "done"], fs)
    ELSE Compared2(run, fs, calculateChecksums(fs[run.outputPath]))

\* The step the invocation takes next when the API serves package p, the
\* disk is fs and the environment does o.
Step(run, p, fs, o) ==
    CASE run.pc = "read" -> StepRead(run, p, fs, o)
      [] run.pc \in {"download1", "download2"} -> StepDownload(run, p, fs, o)
      [] run.pc = "checksums1" -> StepChecksums1(run, p, fs, o)
      [] run.pc = "checksums2" -> StepChecksums2(run, p, fs, o)
      [] OTHER -> Stepped(run, fs)

\* The invocation the variables of Spec hold.
ThisRun ==
    [pc |-> pc, pkg |-> pkg, cfg |-> cfg, d |-> d, outputPath |-> outputPath,
     local |-> local, requests |-> requests, observed |-> observed,
     stdout |-> stdout, err |-> err]

\* Every step of Spec is the step some outcome gives, with the package the
\* API served.
StepsAgree ==
    [][\E o \in OutcomesAt(pc) :
          LET s == Step(ThisRun, pkg', files, o)
          IN  s.run = ThisRun' /\ s.fs = files']_vars

\* How an invocation ended.
Outcome(run) ==
    CASE run.pc # "done" -> "Running"
      [] run.err.kind = "mismatch" -> "Failed"
      [] run.err # NoError -> "Error"
      [] ~run.cfg.download -> "NotDownloaded"
      [] \E i \in 1..Len(run.stdout) : run.stdout[i] = IgnoreWarning ->
            "AcceptedWithMismatch"
      [] OTHER -> "Verified"

----------------------------------------------------------------------------
\* Two invocations side by side that differ in ignore_checksums only: the
\* same package from the API, the same outcome at every call, each with a
\* disk of its own.

TwinConfig(download, ignore) ==
    [download |-> download, download_dir |-> <<"tmp">>, ignore_checksums |-> ignore]

TwinInit ==
    /\ IdleRun
    /\ dig = NoDigest
    /\ conc = NoPair
    /\ \E p \in Packages, download \in BOOLEAN :
          twin = [phase |-> "run", served |-> p,
                  strict |-> NewRun(TwinConfig(download, FALSE)),
                  lax |-> NewRun(TwinConfig(download, TRUE)),
                  strictFS |-> EmptyFS, laxFS |-> EmptyFS]

\* Both invocations take their next step under outcome o.
TwinApply(o) ==
    LET s == Step(twin.strict, twin.served, twin.strictFS, o)
        l == Step(twin.lax, twin.served, twin.laxFS, o)
    IN  /\ twin' = [twin EXCEPT !.strict = s.run, !.strictFS = s.fs,
                                !.lax = l.run, !.laxFS = l.fs]
        /\ UNCHANGED <<runVars, dig, conc>>

TwinRead ==
    /\ twin.strict.pc = "read"
    /\ \E o \in OutcomesAt(twin.strict.pc) : TwinApply(o)

TwinDownload ==
    /\ twin.strict.pc \in {"download1", "download2"}
    /\ \E o \in OutcomesAt(twin.strict.pc) : TwinApply(o)

TwinChecksums ==
    /\ twin.strict.pc \in {"checksums1", "checksums2"}
    /\ \E o \in OutcomesAt(twin.strict.pc) : TwinApply(o)

TwinNext ==
    \/ TwinRead
    \/ TwinDownload
    \/ TwinChecksums

SpecTwin == TwinInit /\ [][TwinNext]_vars

\* Both attempts of the invocation were compared and both mismatched.
BothMismatch(run) ==
    /\ Len(run.observed) = 2
    /\ Mismatch(run.observed[1], run.pkg)
    /\ Mismatch(run.observed[2], run.pkg)

\* C20: two runs given the same URL, expected digests and server responses
\* but opposite ignore_checksums issue the same fetches and make the same
\* comparisons, and end alike (outcome, error, fields, disk) unless both
\* attempts mismatch; then the one with ignore_checksums ends
\* AcceptedWithMismatch and the other Failed.
C20_IgnoreOnlyDecides ==
    twin.phase = "run" =>
        /\ twin.strict.requests = twin.lax.requests
        /\ twin.strict.observed = twin.lax.observed
        /\ twin.strict.pc = twin.lax.pc
        /\ twin.strictFS = twin.laxFS
        /\ twin.strict.pc = "done" =>
              IF BothMismatch(twin.strict)
              THEN /\ Outcome(twin.strict) = "Failed"
                   /\ Outcome(twin.lax) = "AcceptedWithMismatch"
              ELSE /\ Outcome(twin.strict) = Outcome(twin.lax)
                   /\ twin.strict.err = twin.lax.err
                   /\ twin.strict.d = twin.lax.d
                   /\ twin.strict.stdout = twin.lax.stdout

\* Both runs fetched twice, with the cache-busting flag on the second fetch
\* only, and ended differently.
C20_Witness ==
    /\ twin.phase = "run"
    /\ twin.strict.pc = "done"
    /\ twin.lax.pc = "done"
    /\ Len(twin.lax.requests) = 2
    /\ ~twin.lax.requests[1].bustCache
    /\ twin.lax.requests[2].bustCache
    /\ BothMismatch(twin.lax)
    /\ Outcome(twin.strict) = "Failed"
    /\ Outcome(twin.lax) = "AcceptedWithMismatch"

----------------------------------------------------------------------------
\* Two invocations running concurrently on one disk.  Each is followed
\* together with the same invocation run alone: a copy that gets the same
\* package and the same outcome at every call but has a disk to itself.

\* The packages the API serves the two invocations: the first at the plain
\* URL, the second at either URL; the expected digests are those of one of
\* the two contents.
PairChecksums ==
    {calculateChecksums(Published), calculateChecksums(Superseded)}

PairPackages ==
    { <<[CdnUrl |-> <<"https://cdn", "/", "pkg.tgz">>, Checksum |-> c],
        [CdnUrl |-> u, Checksum |-> calculateChecksums(Published)]>> :
        c \in PairChecksums, u \in {v \in CdnUrls : urlValid(v)} }

PairInit ==
    /\ IdleRun
    /\ dig = NoDigest
    /\ twin = NoPair
    /\ \E ps \in PairPackages, ignore \in BOOLEAN :
          conc = [phase |-> "run", served |-> ps,
                  run |-> <<NewRun(TwinConfig(TRUE, ignore)), NewRun(TwinConfig(TRUE, FALSE))>>,
                  disk |-> EmptyFS,
                  solo |-> <<NewRun(TwinConfig(TRUE, ignore)), NewRun(TwinConfig(TRUE, FALSE))>>,
                  soloFS |-> <<EmptyFS, EmptyFS>>]

\* The two invocations run within one second: every reading of the clock
\* shows the same time.
PairOutcomesAt(at) == {o \in OutcomesAt(at) : o.at = Plain.at}

\* Invocation i makes its next call; the environment answers with o, to it
\* and to its copy that runs alone.
PairStep(i) ==
    /\ conc.phase = "run"
    /\ conc.run[i].pc # "done"
    /\ \E o \in PairOutcomesAt(conc.run[i].pc) :
          LET shared == Step(conc.run[i], conc.served[i], conc.disk, o)
              alone == Step(conc.solo[i], conc.served[i], conc.soloFS[i], o)
          IN  conc' = [conc EXCEPT !.run[i] = shared.run, !.disk = shared.fs,
                                   !.solo[i] = alone.run, !.soloFS[i] = alone.fs]
    /\ UNCHANGED <<runVars, dig, twin>>

PairFirst == PairStep(1)

PairSecond == PairStep(2)

PairNext ==
    \/ PairFirst
    \/ PairSecond

SpecPair == PairInit /\ [][PairNext]_vars

\* The file invocation i downloads to (lines 183-184).
Destination(i) ==
    Join(conc.run[i].cfg.download_dir, Base(conc.served[i].CdnUrl))

\* C15: when the destination paths of two concurrent invocations differ,
\* then under every interleaving of their calls each has the outcome, the
\* reported fields and digests, and the files on disk that it has when run
\* alone against the same answers.
C15_Independent ==
    (conc.phase = "run" /\ Destination(1) # Destination(2)) =>
        \A i \in {1, 2} :
            /\ conc.run[i] = conc.solo[i]
            /\ Outcome(conc.run[i]) = Outcome(conc.solo[i])
            /\ \A q \in DOMAIN conc.soloFS[i] :
                  q \in DOMAIN conc.disk /\ conc.disk[q] = conc.soloFS[i][q]

\* Both invocations have written different contents to different paths and
\* neither has computed its digests yet.
C15_Witness ==
    /\ conc.phase = "run"
    /\ Destination(1) # Destination(2)
    /\ conc.run[1].pc = "checksums1"
    /\ conc.run[2].pc = "checksums1"
    /\ {Destination(1), Destination(2)} \subseteq DOMAIN conc.disk
    /\ conc.disk[Destination(1)] # conc.disk[Destination(2)]

\* Two invocations with one destination path: the second has overwritten
\* what the first wrote and the first reports digests it does not report
\* when run alone.
PairInterferes ==
    /\ conc.phase = "run"
    /\ Destination(1) = Destination(2)
    /\ conc.run[1].pc = "done"
    /\ conc.solo[1].pc = "done"
    /\ Outcome(conc.run[1]) # Outcome(conc.solo[1])

====
